---- MODULE Spec2Model ----
(***************************************************************************)
(* Commit log readers of server/commitlog/reader.go.                       *)
(*                                                                         *)
(* The log is a list of segments; a segment holds framed records, a        *)
(* waiter set and a sealed flag.  A byte of the log is the pair            *)
(* <<offset, k>>: the k-th byte of the framed record with that offset.     *)
(* One reader is created by NewReaderUncommitted or NewReaderCommitted     *)
(* and then runs Read calls; the writer appends, rolls the active segment  *)
(* and advances the high watermark between the reader's steps.  The log is *)
(* new, or was opened with two segments of two records, or has lost its    *)
(* first record to retention.  A second specification, RoundTripSpec,      *)
(* starts from a log of framed messages and decodes the reader's stream    *)
(* with ReadMessage.                                                       *)
(***************************************************************************)
EXTENDS Integers, Sequences, FiniteSets, TLC

\* ---- bounds of the model ----
MaxRecs == 3      \* records the writer appends
MaxSegs == 2      \* segments the log grows to
MaxBuf == 2       \* longest buffer handed to Read
MaxSize == 2      \* longest framed record, in bytes

NoSeg == 0        \* a nil *Segment (segments are named by their index in the log)
Reader == "r"     \* the reader's identity in the waiter sets

ErrNil == "nil"
ErrEOF == "EOF"
ErrNoSeg == "no segment to consume"
ErrPanic == "panic: slice bounds out of range"
ErrSegmentNotFound == "segment not found"
ErrEntryNotFound == "entry not found"

VARIABLES
    segs,       \* CommitLog.segments: sequence of [base, sizes, sealed, waiters]
    hw,         \* CommitLog high watermark, -1 when nothing is committed
    hwWaiters,  \* CommitLog HW waiter set
    closed,     \* CommitLog.closed has been closed
    ctxDone,    \* the reader's ctx.Done() has been closed
    r,          \* the reader: its fields, the locals of the running Read, its pc
    feed,       \* size of the next record the producer appends
    rm,         \* the caller decoding messages with ReadMessage
    g           \* history of the reader: constructor arguments, bytes delivered

vars == <<segs, hw, hwWaiters, closed, ctxDone, r, feed, rm, g>>

\* ---- pure helpers ----
Min(x, y) == IF x < y THEN x ELSE y

RECURSIVE SumSizes(_)
SumSizes(sizes) ==
    IF sizes = <<>> THEN 0 ELSE Head(sizes) + SumSizes(Tail(sizes))

\* The framed bytes of record off, size bytes long.
RecBytes(off, size) == [k \in 1..size |-> <<off, k>>]

RECURSIVE SegBytesFrom(_, _)
SegBytesFrom(base, sizes) ==
    IF sizes = <<>> THEN <<>>
    ELSE RecBytes(base, Head(sizes)) \o SegBytesFrom(base + 1, Tail(sizes))

\* The bytes stored in a segment, position 0 first.
SegData(s) == SegBytesFrom(s.base, s.sizes)

\* Segment's last-written position.
SegPosition(s) == SumSizes(s.sizes)

RECURSIVE LogBytes(_)
LogBytes(ss) ==
    IF ss = <<>> THEN <<>> ELSE SegData(Head(ss)) \o LogBytes(Tail(ss))

\* Number of records written so far, which is also the next offset to assign.
NextOffset == segs[Len(segs)].base + Len(segs[Len(segs)].sizes)

\* Segment.ReadAt(p, pos) for a buffer of length len: bytes copied and error.
ReadAt(s, len, pos) ==
    LET lw == SegPosition(s) IN
    IF len = 0 THEN [bytes |-> <<>>, err |-> ErrNil]
    ELSE IF pos >= lw THEN [bytes |-> <<>>, err |-> ErrEOF]
    ELSE IF pos + len > lw
         THEN [bytes |-> SubSeq(SegData(s), pos + 1, lw), err |-> ErrEOF]
    ELSE [bytes |-> SubSeq(SegData(s), pos + 1, pos + len), err |-> ErrNil]

\* findSegment(segments, offset) on a snapshot of the first snap segments:
\* the index of the segment with the greatest base <= offset, NoSeg if none.
findSegment(snap, offset) ==
    LET c == {i \in 1..snap : segs[i].base <= offset} IN
    IF c = {} THEN NoSeg ELSE CHOOSE i \in c : \A j \in c : j <= i

\* findSegmentByBaseOffset(segments, base): the segment whose base is base.
findSegmentByBaseOffset(snap, base) ==
    LET c == {i \in 1..snap : segs[i].base = base} IN
    IF c = {} THEN NoSeg ELSE CHOOSE i \in c : TRUE

\* Segment.findEntry(offset): found, and the entry's position and size.
HasEntry(i, offset) ==
    /\ i # NoSeg
    /\ offset >= segs[i].base
    /\ offset < segs[i].base + Len(segs[i].sizes)

EntryPos(i, offset) == SumSizes(SubSeq(segs[i].sizes, 1, offset - segs[i].base))
EntrySize(i, offset) == segs[i].sizes[offset - segs[i].base + 1]

\* getHWPos(segments, hw): ok, index of the HW segment, end position of the
\* HW record in it.
getHWPos(snap, h) ==
    LET i == findSegment(snap, h) IN
    IF ~HasEntry(i, h) THEN [ok |-> FALSE, idx |-> NoSeg, pos |-> 0]
    ELSE [ok |-> TRUE, idx |-> i, pos |-> EntryPos(i, h) + EntrySize(i, h)]

\* CommitLog.OldestOffset()
OldestOffset == segs[1].base

\* ---- initial state ----
NoReader ==
    [kind |-> "none", pc |-> "idle", seg |-> NoSeg, pos |-> -1,
     hwSeg |-> NoSeg, hwPos |-> -1, hw |-> -1,
     snap |-> 0, plen |-> 0, n |-> 0, err |-> ErrNil,
     waiting |-> FALSE, inner |-> FALSE, lhw |-> -1, fired |-> FALSE]

\* A log that was just created.
EmptyLog ==
    [segs |-> << [base |-> 0, sizes |-> <<>>, sealed |-> FALSE, waiters |-> {}] >>,
     hw |-> -1]

\* A log opened with two segments of two records each, the first record of
\* the second segment committed.
RecoveredLog ==
    [segs |-> << [base |-> 0, sizes |-> <<1, 1>>, sealed |-> TRUE, waiters |-> {}],
                 [base |-> 2, sizes |-> <<1, 1>>, sealed |-> FALSE, waiters |-> {}] >>,
     hw |-> 2]

\* A log whose record 0 was removed by retention: the oldest offset is 1.
TrimmedLog ==
    [segs |-> << [base |-> 1, sizes |-> <<1, 1>>, sealed |-> FALSE, waiters |-> {}] >>,
     hw |-> 1]

\* Nobody calls ReadMessage.
NoRM == [pc |-> "off", msgs |-> <<>>, hdr |-> <<>>, got |-> <<>>]

Init ==
    /\ \E l \in {EmptyLog, RecoveredLog, TrimmedLog} :
        /\ segs = l.segs
        /\ hw = l.hw
    /\ rm = NoRM
    /\ hwWaiters = {}
    /\ closed = FALSE
    /\ ctxDone = FALSE
    /\ feed \in 1..MaxSize
    /\ r = NoReader
    /\ g = [start |-> -1, hw0 |-> -1, out |-> <<>>]

\* ---- the writer and the log ----
\* Firing a waiter closes its one-shot channel; the waiter set is emptied.
Fire(ws) == IF Reader \in ws THEN [r EXCEPT !.fired = TRUE] ELSE r

\* Append one framed record to the active segment, then notify its waiters.
\* The producer's records cycle through the sizes 1..MaxSize.
AppendRecord ==
    /\ ~closed
    /\ NextOffset < MaxRecs
    /\ LET a == Len(segs) IN
        /\ segs' = [segs EXCEPT ![a].sizes = Append(@, feed), ![a].waiters = {}]
        /\ r' = Fire(segs[a].waiters)
    /\ feed' = (feed % MaxSize) + 1
    /\ UNCHANGED <<rm, hw, hwWaiters, closed, ctxDone, g>>

\* Roll: the active segment is sealed and its waiters released, a new active
\* segment starts at the next offset.
Roll ==
    /\ ~closed
    /\ Len(segs) < MaxSegs
    /\ segs[Len(segs)].sizes # <<>>
    /\ LET a == Len(segs) IN
        /\ segs' = Append([segs EXCEPT ![a].sealed = TRUE, ![a].waiters = {}],
                          [base |-> NextOffset, sizes |-> <<>>,
                           sealed |-> FALSE, waiters |-> {}])
        /\ r' = Fire(segs[a].waiters)
    /\ UNCHANGED <<rm, feed, hw, hwWaiters, closed, ctxDone, g>>

\* The HW advances to a written offset, then the HW waiters are notified.
SetHighWatermark ==
    /\ ~closed
    /\ \E h \in (hw + 1)..(NextOffset - 1) :
        /\ hw' = h
        /\ hwWaiters' = {}
        /\ r' = Fire(hwWaiters)
    /\ UNCHANGED <<rm, feed, segs, closed, ctxDone, g>>

Close ==
    /\ ~closed
    /\ closed' = TRUE
    /\ UNCHANGED <<rm, feed, segs, hw, hwWaiters, ctxDone, r, g>>

Cancel ==
    /\ r.kind # "none"
    /\ ~ctxDone
    /\ ctxDone' = TRUE
    /\ UNCHANGED <<rm, feed, segs, hw, hwWaiters, closed, r, g>>

\* Segment.waitForData(waiter, pos): the channel is already closed when data
\* lies past pos or the segment is sealed, else the waiter is registered.
SegWaitForData(i, pos) ==
    IF SegPosition(segs[i]) > pos \/ segs[i].sealed
    THEN [fired |-> TRUE, segs |-> segs]
    ELSE [fired |-> FALSE,
          segs |-> [segs EXCEPT ![i].waiters = @ \cup {Reader}]]

\* Segment.removeWaiter(waiter)
SegRemoveWaiter(i) == [segs EXCEPT ![i].waiters = @ \ {Reader}]

\* CommitLog.waitForHW(waiter, hw)
LogWaitForHW(h) ==
    IF hw # h THEN [fired |-> TRUE, waiters |-> hwWaiters]
    ELSE [fired |-> FALSE, waiters |-> hwWaiters \cup {Reader}]

\* CommitLog.removeHWWaiter(waiter)
LogRemoveHWWaiter == hwWaiters \ {Reader}

\* ---- the reader's history (not program state) ----
Deliver(bytes) == [g EXCEPT !.out = @ \o bytes]

\* The bytes the running or last Read copied into its buffer.
Buf == SubSeq(g.out, Len(g.out) - r.n + 1, Len(g.out))

\* Offsets a reader is constructed at.
Offsets == 0..(MaxRecs - 1)

\* ---- NewReaderUncommitted ----
NewReaderUncommitted ==
    /\ r.kind = "none"
    /\ \E offset \in Offsets :
        LET seg == findSegment(Len(segs), offset) IN
        /\ seg # NoSeg
        /\ HasEntry(seg, offset)
        /\ r' = [r EXCEPT !.kind = "U", !.seg = seg, !.pos = EntryPos(seg, offset)]
        /\ g' = [g EXCEPT !.start = offset]
    /\ UNCHANGED <<rm, feed, segs, hw, hwWaiters, closed, ctxDone>>

\* ---- UncommittedReader.Read ----
\* The locals of the call go out of scope; n and err are what the caller gets.
Return(n, pos, err) ==
    [r EXCEPT !.pc = "idle", !.n = n, !.pos = pos, !.err = err, !.snap = 0,
              !.waiting = FALSE, !.inner = FALSE, !.lhw = -1, !.fired = FALSE]

\* Lines 40-48: Read is entered with a buffer of length len.
U_ReadCall(len) ==
    [r EXCEPT !.pc = "loop", !.snap = Len(segs), !.plen = len, !.n = 0,
              !.err = ErrNil, !.waiting = FALSE, !.inner = FALSE]

U_Read ==
    /\ r.kind = "U"
    /\ r.pc = "idle"
    /\ \E len \in 1..MaxBuf : r' = U_ReadCall(len)
    /\ UNCHANGED <<rm, feed, segs, hw, hwWaiters, closed, ctxDone, g>>

\* Lines 69-74: the successor is in the snapshot, roll to it.
U_RollForward(n, next) ==
    [r EXCEPT !.n = n, !.seg = next, !.pos = 0, !.err = ErrEOF]

\* Lines 95: the successor was found after a wake.
U_SwitchAfterWake(next) == [r EXCEPT !.seg = next, !.pc = "loop"]

\* Lines 52-82: one pass of the loop up to the next blocking point.
U_Loop ==
    /\ r.kind = "U"
    /\ r.pc = "loop"
    /\ LET ra == ReadAt(segs[r.seg], r.plen - r.n, r.pos)
           n1 == r.n + Len(ra.bytes)
           pos1 == r.pos + Len(ra.bytes)
           next == findSegmentByBaseOffset(r.snap, segs[r.seg].base + 1)
       IN
        /\ g' = Deliver(ra.bytes)
        /\ r' = IF n1 = r.plen THEN Return(n1, pos1, ra.err)
                ELSE IF Len(ra.bytes) # 0 /\ ra.err = ErrNil
                     THEN [r EXCEPT !.n = n1, !.pos = pos1, !.err = ra.err,
                                    !.waiting = FALSE]
                ELSE IF ra.err = ErrEOF /\ ~r.waiting
                     THEN IF next # NoSeg THEN U_RollForward(n1, next)
                          ELSE [r EXCEPT !.n = n1, !.pos = pos1, !.err = ra.err,
                                         !.waiting = TRUE, !.inner = FALSE,
                                         !.pc = "reg"]
                ELSE [r EXCEPT !.n = n1, !.pos = pos1, !.err = ra.err,
                               !.pc = "rescan"]
    /\ UNCHANGED <<rm, feed, segs, hw, hwWaiters, closed, ctxDone>>

\* Lines 86-88: refresh the snapshot and look for the successor once.
U_Rescan ==
    /\ r.kind = "U"
    /\ r.pc = "rescan"
    /\ LET next == findSegmentByBaseOffset(Len(segs), segs[r.seg].base + 1) IN
        r' = IF next = NoSeg
             THEN [r EXCEPT !.snap = Len(segs), !.inner = TRUE, !.pc = "reg"]
             ELSE [U_SwitchAfterWake(next) EXCEPT !.snap = Len(segs)]
    /\ UNCHANGED <<rm, feed, segs, hw, hwWaiters, closed, ctxDone, g>>

\* ---- UncommittedReader.waitForData ----
\* Line 102: register with the segment.
U_WaitRegister ==
    /\ r.kind = "U"
    /\ r.pc = "reg"
    /\ LET w == SegWaitForData(r.seg, r.pos) IN
        /\ segs' = w.segs
        /\ r' = [r EXCEPT !.fired = w.fired, !.pc = "sel"]
    /\ UNCHANGED <<rm, feed, hw, hwWaiters, closed, ctxDone, g>>

\* U_WaitAborted with waitForData returning true on close and cancel.
U_WaitAborted_Continue ==
    [r EXCEPT !.pc = IF r.inner THEN "reg" ELSE "loop"]

\* U_WaitAborted without the err = io.EOF of lines 78 and 90, err being nil.
U_WaitAborted_NilErr == Return(r.n, r.pos, ErrNil)

\* Lines 104-109, then 78-79 or 90-91: the wait returns false.
U_WaitAborted == Return(r.n, r.pos, ErrEOF)

U_WaitClosed ==
    /\ r.kind = "U"
    /\ r.pc = "sel"
    /\ closed
    /\ segs' = SegRemoveWaiter(r.seg)
    /\ r' = U_WaitAborted
    /\ UNCHANGED <<rm, feed, hw, hwWaiters, closed, ctxDone, g>>

\* U_WaitCancelled without the removeWaiter call.
U_WaitCancelled_NoRemove ==
    /\ r.kind = "U"
    /\ r.pc = "sel"
    /\ ctxDone
    /\ r' = U_WaitAborted
    /\ UNCHANGED <<rm, feed, segs, hw, hwWaiters, closed, ctxDone, g>>

U_WaitCancelled ==
    /\ r.kind = "U"
    /\ r.pc = "sel"
    /\ ctxDone
    /\ segs' = SegRemoveWaiter(r.seg)
    /\ r' = U_WaitAborted
    /\ UNCHANGED <<rm, feed, hw, hwWaiters, closed, ctxDone, g>>

\* Lines 110-111: woken.  From the first wait the loop continues; in the inner
\* loop (88-94) the snapshot is refreshed and the wait is entered again.
U_WaitWoken ==
    /\ r.kind = "U"
    /\ r.pc = "sel"
    /\ r.fired
    /\ r' = IF r.inner THEN [r EXCEPT !.snap = Len(segs), !.pc = "reg"]
            ELSE [r EXCEPT !.pc = "loop"]
    /\ UNCHANGED <<rm, feed, segs, hw, hwWaiters, closed, ctxDone, g>>

\* ---- NewReaderCommitted ----
\* ClampOffset clamping to the offset after the oldest one.
ClampOffset_PastOldest(offset) ==
    IF offset < OldestOffset THEN OldestOffset + 1 ELSE offset

\* Lines 293-295: an offset below the oldest one is moved up to it.
ClampOffset(offset) ==
    IF offset < OldestOffset THEN OldestOffset ELSE offset

NewReaderCommitted ==
    /\ r.kind = "none"
    /\ \E offset \in Offsets :
        LET hp == getHWPos(Len(segs), hw)
            hwSeg == IF hw # -1 THEN hp.idx ELSE NoSeg
            hwPos == IF hw # -1 THEN hp.pos ELSE -1
            off == ClampOffset(offset)
            seg == findSegment(Len(segs), off)
        IN
        /\ hw # -1 => hp.ok
        /\ IF offset > hw
           THEN r' = [r EXCEPT !.kind = "C", !.seg = NoSeg, !.pos = -1,
                               !.hwSeg = hwSeg, !.hwPos = hwPos, !.hw = hw]
           ELSE /\ seg # NoSeg
                /\ HasEntry(seg, off)
                /\ r' = [r EXCEPT !.kind = "C", !.seg = seg,
                                  !.pos = EntryPos(seg, off),
                                  !.hwSeg = hwSeg, !.hwPos = hwPos, !.hw = hw]
        /\ g' = [g EXCEPT !.start = offset, !.hw0 = hw]
    /\ UNCHANGED <<rm, feed, segs, hw, hwWaiters, closed, ctxDone>>

\* ---- CommittedReader.Read ----
C_Read ==
    /\ r.kind = "C"
    /\ r.pc = "idle"
    /\ \E len \in 1..MaxBuf :
        r' = [r EXCEPT !.pc = IF r.seg = NoSeg THEN "pre_hw" ELSE "cloop",
                       !.snap = Len(segs), !.plen = len, !.n = 0, !.err = ErrNil]
    /\ UNCHANGED <<rm, feed, segs, hw, hwWaiters, closed, ctxDone, g>>

\* Lines 155-156 and 163: sample the HW; wait while it has not changed.
C_PreHW ==
    /\ r.kind = "C"
    /\ r.pc = "pre_hw"
    /\ r' = [r EXCEPT !.lhw = hw,
                      !.pc = IF hw = r.hw THEN "pre_reg" ELSE "pre_sync"]
    /\ UNCHANGED <<rm, feed, segs, hw, hwWaiters, closed, ctxDone, g>>

\* A return of Read after the reader's fields were updated to rr.
C_Fail(rr, n, err) ==
    [rr EXCEPT !.pc = "idle", !.n = n, !.err = err, !.snap = 0, !.lhw = -1,
               !.fired = FALSE]

\* C_PreOffset starting at the record of the new HW.
C_PreOffset_AtHW == r.lhw

\* Line 154: the offset the waiting reader starts at.
C_PreOffset == r.hw + 1

\* Lines 165-181: adopt the new HW and position the reader.
C_PreSync ==
    /\ r.kind = "C"
    /\ r.pc = "pre_sync"
    /\ LET offset == C_PreOffset
           snap == Len(segs)
           hp == getHWPos(snap, r.lhw)
           seg == findSegment(snap, offset)
           r1 == [r EXCEPT !.hw = r.lhw, !.snap = snap]
           r2 == [r1 EXCEPT !.hwSeg = hp.idx, !.hwPos = hp.pos, !.seg = seg]
       IN
        r' = IF ~hp.ok THEN C_Fail(r1, 0, ErrSegmentNotFound)
             ELSE IF seg = NoSeg THEN C_Fail(r2, 0, ErrSegmentNotFound)
             ELSE IF ~HasEntry(seg, offset) THEN C_Fail(r2, 0, ErrEntryNotFound)
             ELSE [r2 EXCEPT !.pos = EntryPos(seg, offset), !.pc = "cloop"]
    /\ UNCHANGED <<rm, feed, segs, hw, hwWaiters, closed, ctxDone, g>>

\* ---- CommittedReader.readLoop ----
\* C_Lim without the clamp to the HW position.
C_Lim_NoClamp == r.plen

\* Lines 191-195: the upper index of the slice handed to ReadAt.
C_Lim ==
    IF r.seg = r.hwSeg THEN Min(r.plen, r.hwPos - r.pos) ELSE r.plen

\* C_NextSegment without the replacement of io.EOF by the error of line 214.
C_NextSegment_KeepEOF(n, pos) ==
    LET next == findSegmentByBaseOffset(r.snap, segs[r.seg].base + 1) IN
    IF next = NoSeg THEN Return(n, pos, ErrEOF)
    ELSE [r EXCEPT !.n = n, !.seg = next, !.pos = 0, !.err = ErrEOF]

\* Lines 211-219: jump to the next segment of the snapshot.
C_NextSegment(n, pos) ==
    LET next == findSegmentByBaseOffset(r.snap, segs[r.seg].base + 1) IN
    IF next = NoSeg THEN Return(n, pos, ErrNoSeg)
    ELSE [r EXCEPT !.n = n, !.seg = next, !.pos = 0, !.err = ErrEOF]

\* Lines 191-220: one pass of the loop.  p[n:lim] panics when n > lim.
C_Loop ==
    /\ r.kind = "C"
    /\ r.pc = "cloop"
    /\ LET lim == C_Lim IN
       IF r.n > lim
       THEN /\ r' = [r EXCEPT !.pc = "crashed", !.err = ErrPanic]
            /\ g' = g
       ELSE LET ra == ReadAt(segs[r.seg], lim - r.n, r.pos)
                n1 == r.n + Len(ra.bytes)
                pos1 == r.pos + Len(ra.bytes)
            IN
            /\ g' = Deliver(ra.bytes)
            /\ r' = IF n1 = r.plen THEN Return(n1, pos1, ra.err)
                    ELSE IF Len(ra.bytes) # 0 /\ ra.err = ErrNil
                         THEN [r EXCEPT !.n = n1, !.pos = pos1, !.err = ra.err]
                    ELSE IF ra.err = ErrEOF THEN C_NextSegment(n1, pos1)
                    ELSE [r EXCEPT !.n = n1, !.pos = pos1, !.err = ra.err,
                                   !.pc = "c_hw"]
    /\ UNCHANGED <<rm, feed, segs, hw, hwWaiters, closed, ctxDone>>

\* Lines 223-224 and 231: sample the HW; wait while it has not changed.
C_HW ==
    /\ r.kind = "C"
    /\ r.pc = "c_hw"
    /\ r' = [r EXCEPT !.lhw = hw,
                      !.pc = IF hw = r.hw THEN "hw_reg" ELSE "c_sync"]
    /\ UNCHANGED <<rm, feed, segs, hw, hwWaiters, closed, ctxDone, g>>

\* Lines 233-240 with hp the result of getHWPos: adopt the new HW.  The err
\* of line 235 is a new variable of the loop body, so the break of line 237
\* returns the outer err.
C_SyncWith(hp) ==
    LET r1 == [r EXCEPT !.hw = r.lhw, !.snap = Len(segs)] IN
    IF ~hp.ok THEN C_Fail(r1, r.n, r.err)
    ELSE [r1 EXCEPT !.hwPos = hp.pos, !.hwSeg = hp.idx, !.pc = "cloop"]

C_Sync ==
    /\ r.kind = "C"
    /\ r.pc = "c_sync"
    /\ r' = C_SyncWith(getHWPos(Len(segs), r.lhw))
    /\ UNCHANGED <<rm, feed, segs, hw, hwWaiters, closed, ctxDone, g>>

\* What getHWPos returns with an error (lines 318 and 322).
HWPosError == [ok |-> FALSE, idx |-> NoSeg, pos |-> 0]

\* C_Sync when findSegment or findEntry fails for the new HW.
C_SyncFault ==
    /\ r.kind = "C"
    /\ r.pc = "c_sync"
    /\ r' = C_SyncWith(HWPosError)
    /\ UNCHANGED <<rm, feed, segs, hw, hwWaiters, closed, ctxDone, g>>

\* ---- CommittedReader.waitForHW ----
InPre == r.pc \in {"pre_reg", "pre_sel"}

\* C_WaitArg reading the log's HW again instead of passing the sampled one.
C_WaitArg_Current == hw

\* Lines 158 and 226: the HW the reader hands to waitForHW is the one it
\* sampled and compared with r.hw.
C_WaitArg == r.lhw

\* Line 247: register with the log.
C_WaitRegister ==
    /\ r.kind = "C"
    /\ r.pc \in {"pre_reg", "hw_reg"}
    /\ LET w == LogWaitForHW(C_WaitArg) IN
        /\ hwWaiters' = w.waiters
        /\ r' = [r EXCEPT !.fired = w.fired,
                          !.pc = IF InPre THEN "pre_sel" ELSE "hw_sel"]
    /\ UNCHANGED <<rm, feed, segs, hw, closed, ctxDone, g>>

\* Lines 249-254, then 159-160 or 227-228: the wait returns false.
C_WaitAborted == Return(r.n, r.pos, ErrEOF)

C_WaitClosed ==
    /\ r.kind = "C"
    /\ r.pc \in {"pre_sel", "hw_sel"}
    /\ closed
    /\ hwWaiters' = LogRemoveHWWaiter
    /\ r' = C_WaitAborted
    /\ UNCHANGED <<rm, feed, segs, hw, closed, ctxDone, g>>

C_WaitCancelled ==
    /\ r.kind = "C"
    /\ r.pc \in {"pre_sel", "hw_sel"}
    /\ ctxDone
    /\ hwWaiters' = LogRemoveHWWaiter
    /\ r' = C_WaitAborted
    /\ UNCHANGED <<rm, feed, segs, hw, closed, ctxDone, g>>

\* Lines 255-256: woken; the HW is sampled again.
C_WaitWoken ==
    /\ r.kind = "C"
    /\ r.pc \in {"pre_sel", "hw_sel"}
    /\ r.fired
    /\ r' = [r EXCEPT !.pc = IF InPre THEN "pre_hw" ELSE "c_hw"]
    /\ UNCHANGED <<rm, feed, segs, hw, hwWaiters, closed, ctxDone, g>>

\* ---- message framing and ReadMessage ----
HeaderLen == 20   \* bytes of a message header: offset, timestamp, size

\* proto.Encoding (big endian): the w bytes of v, most significant first.
RECURSIVE BigEndian(_, _)
BigEndian(v, w) ==
    IF w = 0 THEN <<>> ELSE Append(BigEndian(v \div 256, w - 1), v % 256)

\* proto.Encoding.Uint64(b[from:]) / Uint32(b[from:]): the number the w
\* bytes of bs after the first from bytes spell, most significant first.
RECURSIVE Uint(_, _, _)
Uint(bs, from, w) ==
    IF w = 0 THEN 0 ELSE Uint(bs, from, w - 1) * 256 + bs[from + w]

\* The framed record of message m appended at offset off.
Frame(off, m) ==
    BigEndian(off, 8) \o BigEndian(m.timestamp, 8)
        \o BigEndian(Len(m.payload), 4) \o m.payload

\* The value of the k-th byte of the record at offset b[1].
Content(b) == Frame(b[1], rm.msgs[b[1] + 1])[b[2]]

\* The buffer of length len handed to the Read that has returned: the bytes
\* Read copied, the rest as allocated.
FilledBuf(len) ==
    [i \in 1..len |-> IF i <= r.n THEN Content(Buf[i]) ELSE 0]

\* Messages the producer appends.
Timestamps == {1, 258}
Payloads == {<<>>, <<98, 98>>}
Messages == [timestamp : Timestamps, payload : Payloads]

\* The segments of a log holding msgs, cut at the offsets of cuts.
RECURSIVE FramedSegs(_, _, _)
FramedSegs(msgs, cuts, from) ==
    LET later == {c \in cuts : c > from}
        to == IF later = {} THEN Len(msgs)
              ELSE CHOOSE c \in later : \A d \in later : c <= d
        seg == [base |-> from,
                sizes |-> [i \in 1..(to - from) |->
                              HeaderLen + Len(msgs[from + i].payload)],
                sealed |-> later # {},
                waiters |-> {}]
    IN IF later = {} THEN <<seg>> ELSE <<seg>> \o FramedSegs(msgs, cuts, to)

\* A log of framed messages spread over its segments, and a caller about to
\* decode it.
InitRT ==
    /\ \E n \in 1..MaxRecs : \E msgs \in [1..n -> Messages] :
        \E cuts \in SUBSET (1..(n - 1)) :
            /\ Cardinality(cuts) < MaxSegs
            /\ segs = FramedSegs(msgs, cuts, 0)
            /\ rm = [pc |-> "hdr", msgs |-> msgs, hdr |-> <<>>, got |-> <<>>]
    /\ hw = -1
    /\ hwWaiters = {}
    /\ closed = FALSE
    /\ ctxDone = FALSE
    /\ feed = 1
    /\ r = NoReader
    /\ g = [start |-> -1, hw0 |-> -1, out |-> <<>>]

\* Line 17: reader.Read(headersBuf).
RM_ReadHeader ==
    /\ rm.pc = "hdr"
    /\ r.kind = "U"
    /\ r.pc = "idle"
    /\ r' = U_ReadCall(HeaderLen)
    /\ rm' = [rm EXCEPT !.pc = "hdr_read"]
    /\ UNCHANGED <<feed, segs, hw, hwWaiters, closed, ctxDone, g>>

\* Lines 17-26: the header was read; decode it and read the payload.
RM_ReadPayload ==
    /\ rm.pc = "hdr_read"
    /\ r.pc = "idle"
    /\ LET headersBuf == FilledBuf(HeaderLen)
           offset == Uint(headersBuf, 0, 8)
           timestamp == Uint(headersBuf, 8, 8)
           size == Uint(headersBuf, 16, 4)
       IN IF r.err # ErrNil
          THEN /\ rm' = [rm EXCEPT !.pc = "failed"]
               /\ r' = r
          ELSE /\ rm' = [rm EXCEPT !.pc = "body_read",
                                   !.hdr = <<offset, timestamp, size>>]
               /\ r' = U_ReadCall(size)
    /\ UNCHANGED <<feed, segs, hw, hwWaiters, closed, ctxDone, g>>

\* Lines 26-29: the payload was read; the message is returned.  The caller
\* goes on to the next message until it has read them all.
RM_Return ==
    /\ rm.pc = "body_read"
    /\ r.pc = "idle"
    /\ LET got == Append(rm.got, [offset |-> rm.hdr[1], timestamp |-> rm.hdr[2],
                                  payload |-> FilledBuf(rm.hdr[3])])
       IN rm' = IF r.err # ErrNil THEN [rm EXCEPT !.pc = "failed"]
                ELSE [rm EXCEPT !.got = got,
                                !.pc = IF Len(got) = Len(rm.msgs) - g.start
                                       THEN "done" ELSE "hdr"]
    /\ UNCHANGED <<feed, segs, hw, hwWaiters, closed, ctxDone, r, g>>

NextRT ==
    \/ NewReaderUncommitted \/ RM_ReadHeader \/ RM_ReadPayload \/ RM_Return
    \/ U_Loop \/ U_Rescan \/ U_WaitRegister \/ U_WaitWoken

\* The decoding caller and its Read calls keep running.
RoundTripSpec == InitRT /\ [][NextRT]_vars /\ WF_vars(NextRT)

\* ---- specification ----
Writer == AppendRecord \/ Roll \/ SetHighWatermark \/ Close \/ Cancel

UReader ==
    \/ NewReaderUncommitted \/ U_Read \/ U_Loop \/ U_Rescan
    \/ U_WaitRegister \/ U_WaitClosed \/ U_WaitCancelled \/ U_WaitWoken

CReader ==
    \/ NewReaderCommitted \/ C_Read \/ C_PreHW \/ C_PreSync \/ C_Loop \/ C_HW
    \/ C_Sync \/ C_WaitRegister \/ C_WaitClosed \/ C_WaitCancelled \/ C_WaitWoken

Next == Writer \/ UReader \/ CReader

Spec == Init /\ [][Next]_vars

\* A select whose closed case is ready does not stay blocked.
FairCloseSpec == Spec /\ WF_vars(U_WaitClosed \/ C_WaitClosed)

\* The readers on a log whose segment or index lookup can fail.
NextFault == Next \/ C_SyncFault

FaultSpec == Init /\ [][NextFault]_vars

\* The steps of the reader's goroutine: the caller keeps calling Read and a
\* runnable Read keeps running.
ReadStep ==
    \/ U_Read \/ U_Loop \/ U_Rescan
    \/ U_WaitRegister \/ U_WaitClosed \/ U_WaitCancelled \/ U_WaitWoken
    \/ C_Read \/ C_PreHW \/ C_PreSync \/ C_Loop \/ C_HW
    \/ C_Sync \/ C_WaitRegister \/ C_WaitClosed \/ C_WaitCancelled \/ C_WaitWoken

FairReadSpec == Spec /\ WF_vars(ReadStep)


\* ---- what the claims speak about ----
RECURSIVE AllSizes(_)
AllSizes(ss) == IF ss = <<>> THEN <<>> ELSE Head(ss).sizes \o AllSizes(Tail(ss))

\* Bytes of the log that precede record off.
BytesBefore(off) == SumSizes(SubSeq(AllSizes(segs), 1, off - OldestOffset))

\* Bytes of records from..to.
BytesOf(from, to) == BytesBefore(to + 1) - BytesBefore(from)

\* The log's byte stream from the first byte of record off.
StreamFrom(off) ==
    SubSeq(LogBytes(segs), BytesBefore(off) + 1, Len(LogBytes(segs)))

IsPrefix(a, b) == Len(a) <= Len(b) /\ a = SubSeq(b, 1, Len(a))

\* The last Read call has returned to its caller.
Returned == r.pc = "idle" /\ r.plen > 0
\* A Read call is running.
InRead == r.pc \notin {"idle", "crashed"}
\* Nothing was delivered before the running or last Read.
FirstBytes == Len(g.out) = r.n

\* C1: every byte a CommittedReader has copied belongs to a record at or
\* below the log's high watermark, in every state (so also at the moment of
\* the copy), across segment boundaries.
C1_CommittedNeverPastHW ==
    r.kind = "C" => \A i \in 1..Len(g.out) : g.out[i][1] <= hw

\* A committed reader delivered the HW record after crossing into the next
\* segment.
C1_Witness ==
    /\ r.kind = "C"
    /\ Len(g.out) >= 2
    /\ g.out[Len(g.out)][1] = hw
    /\ findSegment(Len(segs), g.out[1][1]) # findSegment(Len(segs), hw)

\* C2: the bytes an UncommittedReader constructed at offset o has returned
\* are always a prefix of the log's byte stream from the first byte of o.
C2_UncommittedPrefix ==
    r.kind = "U" => IsPrefix(g.out, StreamFrom(g.start))

\* C3: a CommittedReader constructed at o <= HW on a log whose committed
\* records span several segments, each holding more than one record, and
\* read with a buffer of exactly the committed bytes from o, ends its Read
\* with those bytes and a nil error.
C3_SpansSegments ==
    /\ g.hw0 >= g.start
    /\ findSegment(Len(segs), g.start) # findSegment(Len(segs), g.hw0)
    /\ \A i \in 1..Len(segs) : Len(segs[i].sizes) > 1

C3_CommittedCrossesSegments ==
    (/\ r.kind = "C"
     /\ C3_SpansSegments
     /\ FirstBytes
     /\ r.plen = BytesOf(g.start, g.hw0)
     /\ r.pc \in {"idle", "crashed"})
        => /\ r.pc = "idle"
           /\ r.err = ErrNil
           /\ g.out = SubSeq(StreamFrom(g.start), 1, r.plen)

\* The reader is blocked in the select of waitForData or waitForHW.
SelPcs == {"sel", "pre_sel", "hw_sel"}
InSelect == r.pc \in SelPcs
Parked == InSelect /\ ~r.fired

\* C4: a reader parked in waitForData or waitForHW whose notification has
\* not fired is registered as a waiter and the quantity it waits on has not
\* changed: the segment holds nothing past its position and is not sealed,
\* the HW is the one the reader last saw.
C4_NoLostWakeup ==
    /\ (r.kind = "U" /\ Parked) =>
        /\ Reader \in segs[r.seg].waiters
        /\ SegPosition(segs[r.seg]) <= r.pos
        /\ ~segs[r.seg].sealed
    /\ (r.kind = "C" /\ Parked) =>
        /\ Reader \in hwWaiters
        /\ hw = r.hw

\* The HW advanced around the registration and the reader's wait has fired.
C4_Witness ==
    /\ r.kind = "C"
    /\ r.pc = "hw_sel"
    /\ r.fired
    /\ hw # r.hw

\* C5: a Read parked when the log is closed returns EndOfStream, and a
\* select left on the closed or cancelled signal returns at once.
C5_CloseWakes ==
    /\ (Parked /\ closed) ~> (Returned /\ r.err = ErrEOF)
    /\ [][(Parked /\ r'.pc \notin SelPcs)
            => (r'.pc = "idle" /\ r'.err = ErrEOF)]_vars

\* A Read returned EndOfStream because the log was closed.
C5_Witness == Returned /\ r.err = ErrEOF /\ closed /\ ~ctxDone

\* The offset the delivered stream starts at.
Origin ==
    IF r.kind = "U" \/ g.out = <<>> THEN g.start ELSE g.out[1][1]

\* C6: a Read that returns EndOfStream after copying k > 0 bytes reports k,
\* and the k bytes are the bytes of the log's stream at the k positions that
\* follow the bytes delivered by the earlier Reads.
C6_PartialReadOnAbort ==
    (Returned /\ r.err = ErrEOF /\ r.n > 0) =>
        /\ r.n <= Len(g.out)
        /\ Buf = SubSeq(StreamFrom(Origin), Len(g.out) - r.n + 1, Len(g.out))

\* C7: while no Read is running the reader is in no waiter set.
C7_NoWaiterOutsideRead ==
    ~InRead =>
        /\ Reader \notin hwWaiters
        /\ \A i \in 1..Len(segs) : Reader \notin segs[i].waiters

\* A Read that was parked has returned on cancellation.
C7_Witness ==
    /\ r.kind = "U"
    /\ Returned
    /\ r.err = ErrEOF
    /\ ctxDone
    /\ ~closed
    /\ ~segs[r.seg].sealed
    /\ SegPosition(segs[r.seg]) <= r.pos

\* C8: a CommittedReader constructed at s above the HW h >= 0 has, once the
\* HW reached s, delivered the record at offset s first if it delivered any.
C8_StartsAtRequestedOffset ==
    (r.kind = "C" /\ g.hw0 >= 0 /\ g.start > g.hw0 /\ hw >= g.start
        /\ g.out # <<>>)
        => g.out[1] = <<g.start, 1>>

\* C9: a CommittedReader constructed at offset 0 on an empty log delivers
\* nothing and returns only EndOfStream while the HW is -1; its first
\* delivering Read, with a buffer of the size of record 0, returns the bytes
\* of record 0 with a nil error and leaves the reader at the end of record 0.
C9_OnEmptyLog == r.kind = "C" /\ g.start = 0 /\ g.hw0 = -1

C9_EmptyLogThenFirstRecord ==
    C9_OnEmptyLog =>
        /\ hw = -1 => (g.out = <<>> /\ (Returned => r.err = ErrEOF))
        /\ (Returned /\ FirstBytes /\ NextOffset > 0
                /\ r.plen = BytesOf(0, 0) /\ r.err # ErrEOF) =>
            /\ r.err = ErrNil
            /\ r.n = r.plen
            /\ g.out = SubSeq(StreamFrom(0), 1, r.plen)
            /\ r.seg = findSegment(Len(segs), 0)
            /\ r.pos = BytesOf(0, 0)

\* Record 0 was delivered to a reader that waited on the empty log.
C9_Witness ==
    /\ C9_OnEmptyLog
    /\ Returned
    /\ r.err = ErrNil
    /\ hw > 0
    /\ g.out = SubSeq(StreamFrom(0), 1, BytesOf(0, 0))

\* C10: Read returns EndOfStream only after the context was cancelled or the
\* log was closed.
C10_EOFOnlyOnCancelOrClose ==
    (Returned /\ r.err = ErrEOF) => (ctxDone \/ closed)

\* A Read that crossed a segment boundary returned a full buffer, the reader
\* neither cancelled nor the log closed.
C10_Witness ==
    /\ Returned
    /\ ~ctxDone
    /\ ~closed
    /\ r.err = ErrNil
    /\ r.n >= 2
    /\ findSegment(Len(segs), Buf[1][1]) # findSegment(Len(segs), Buf[r.n][1])

\* The reader stands at the end of the sealed segment s, whose successor in
\* the log holds data.  The segment holds one record, so that the successor
\* is the segment with base offset BaseOffset+1.
C11_AtSealedEnd(s) ==
    /\ r.kind = "U"
    /\ r.seg = s
    /\ segs[s].sealed
    /\ Len(segs[s].sizes) = 1
    /\ r.pos = SegPosition(segs[s])
    /\ Len(segs) > s
    /\ segs[s + 1].sizes # <<>>

\* The first byte of the successor of segment s was delivered.
C11_SuccessorDelivered(s) ==
    /\ Len(segs) > s
    /\ \E i \in 1..Len(g.out) : g.out[i] = <<segs[s + 1].base, 1>>

\* C11: an UncommittedReader at the end of a sealed segment whose successor
\* holds data eventually delivers the successor's bytes from its first byte,
\* unless the context is cancelled or the log is closed.
C11_RollsForward ==
    \A s \in 1..(MaxSegs - 1) :
        C11_AtSealedEnd(s) ~> (C11_SuccessorDelivered(s) \/ ctxDone \/ closed)

\* A CommittedReader constructed at offset 0 drains a log kept in one
\* segment, and the HW stands at h.
C12_Draining(h) ==
    /\ r.kind = "C"
    /\ g.start = 0
    /\ OldestOffset = 0
    /\ Len(segs) = 1
    /\ hw = h

\* The reader has delivered the bytes of records 0..h.
C12_Delivered(h) == NextOffset > h /\ Len(g.out) >= BytesOf(0, h)

\* C12: whatever the interleaving of HW advances and Read calls, the bytes
\* a CommittedReader delivers are a prefix of the appended byte stream, and
\* a draining reader delivers every record up to each HW the log reaches,
\* unless the context is cancelled or the log is closed: the stream is the
\* one delivered when the HW is advanced once after all records are written.
C12_StreamIndependentOfHWSteps ==
    /\ []((r.kind = "C" /\ g.out # <<>>) => IsPrefix(g.out, StreamFrom(Origin)))
    /\ \A h \in 0..(MaxRecs - 1) :
        C12_Draining(h) ~> (C12_Delivered(h) \/ ctxDone \/ closed)

\* C13: a Read of an UncommittedReader that returned a nil error filled the
\* caller's buffer; a return with n < len(p) carries an error.
C13_NilOnlyWhenFull ==
    (r.kind = "U" /\ Returned /\ r.err = ErrNil) => r.n = r.plen

\* A Read returned part of its buffer, with EndOfStream.
C13_Witness ==
    /\ r.kind = "U"
    /\ Returned
    /\ r.n > 0
    /\ r.n < r.plen
    /\ r.err = ErrEOF

\* The messages appended from the reader's first offset on, as ReadMessage
\* returns them.
C14_Appended ==
    [i \in 1..(Len(rm.msgs) - g.start) |->
        [offset |-> g.start + i - 1,
         timestamp |-> rm.msgs[g.start + i].timestamp,
         payload |-> rm.msgs[g.start + i].payload]]

\* C14: the caller that decodes the stream of a fresh UncommittedReader with
\* ReadMessage gets through all appended messages, and what it has decoded
\* then is the appended (offset, timestamp, payload) triples in order, also
\* when the log has more than one segment.
C14_RoundTrip ==
    /\ <>(rm.pc = "done")
    /\ [](rm.pc = "done" => rm.got = C14_Appended)

\* The reader was constructed at an offset at or below the HW and below the
\* oldest offset of the log.
C15_BelowOldest ==
    /\ r.kind = "C"
    /\ g.start <= g.hw0
    /\ g.start < OldestOffset

\* C15: NewReaderCommitted with an offset <= HW below the oldest retained
\* offset returns a reader standing at the first byte of the oldest record,
\* and the first byte the reader delivers is the first byte of that record.
C15_ClampedToOldest ==
    C15_BelowOldest =>
        /\ r.plen = 0 =>
            (r.seg = findSegment(Len(segs), OldestOffset) /\ r.pos = 0)
        /\ g.out # <<>> => g.out[1] = <<OldestOffset, 1>>

\* A reader constructed below the oldest offset has delivered bytes.
C15_Witness == C15_BelowOldest /\ g.out # <<>>

\* The reader has delivered every byte up to its HW cursor.
C16_AtCursor ==
    /\ r.kind = "C"
    /\ r.seg # NoSeg
    /\ r.seg = r.hwSeg
    /\ r.pos = r.hwPos

\* C16: a CommittedReader that has delivered every byte up to its HW cursor
\* blocks in waitForHW while the HW it saw is the log's, and goes on reading
\* after the HW advanced: its Read neither fails on the slice p[n:lim] nor
\* returns the 'no segment to consume' error, and once the Read has nothing
\* more to copy it is either parked on the HW or on its way to the new one.
C16_BlocksAtHW ==
    C16_AtCursor =>
        /\ r.pc # "crashed"
        /\ ~(Returned /\ r.err = ErrNoSeg)
        /\ (r.pc = "hw_sel" /\ ~r.fired) => hw = r.hw

\* C17: whenever a Read of an UncommittedReader changes the reader's
\* segment, the position in the new segment is 0.
C17_PosResetOnSwitch ==
    [][(r.kind = "U" /\ r.seg # NoSeg /\ r'.seg # r.seg) => r'.pos = 0]_vars

\* C18: a reader that has a current segment stands at a position between 0
\* and the segment's last-written position; a CommittedReader in reading
\* state stands at or before its HW cursor in log order.
C18_PositionInRange ==
    r.seg # NoSeg =>
        /\ 0 <= r.pos
        /\ r.pos <= SegPosition(segs[r.seg])
        /\ r.kind = "C" =>
            \/ r.seg < r.hwSeg
            \/ r.seg = r.hwSeg /\ r.pos <= r.hwPos

\* C19: at each pass of readLoop the slice p[n:lim] handed to ReadAt is in
\* range: 0 <= n <= lim <= len(p).
C19_SliceInRange ==
    (r.kind = "C" /\ r.pc = "cloop") =>
        /\ 0 <= r.n
        /\ r.n <= C_Lim
        /\ C_Lim <= r.plen

\* C20: a Read of a CommittedReader that returned a nil error filled the
\* caller's buffer; in particular a Read that could not recompute the HW
\* cursor after an HW advance returns an error.
C20_ErrorOnHWPosFailure ==
    (r.kind = "C" /\ Returned /\ r.err = ErrNil) => r.n = r.plen

====
